---- MODULE Spec2Model ----
(***************************************************************************)
(* The repository health inspector (scripts/inspect_repo.js): it checks a  *)
(* GitHub repository for four required artifacts and, for every missing    *)
(* one, searches Jira for a ticket with that summary, updates the first    *)
(* match or creates a ticket, with an interactive project-key recovery.    *)
(* Text is modelled as sequences of tokens, so that "contains" is a real   *)
(* subsequence test.                                                       *)
(***************************************************************************)
EXTENDS Integers, Sequences, FiniteSets, TLC

(* ------------------------------ bounds -------------------------------- *)

\* Number of processes (runs of inspectRepo) a behaviour holds.
MaxRuns == 2
\* Number of injected store/resolver failures a behaviour holds.
MaxFailures == 2
\* Number of tickets the store holds before the first run.
MaxInitTickets == 2
\* Number of names in a root listing of the detector's specification.
MaxFiles == 2

(* ------------------------------- text --------------------------------- *)

\* Is q a contiguous part of s (String.prototype.includes, JQL "~").
IsSubstring(q, s) ==
    \E i \in 0..(Len(s) - Len(q)) : SubSeq(s, i + 1, i + Len(q)) = q

ToLowerCase_Identity(f) == f

\* String.prototype.toLowerCase on the file names of the listings below.
ToLowerCase(f) ==
    CASE f = "README.md"     -> "readme.md"
      [] f = "ReadMe.txt"    -> "readme.txt"
      [] f = "README"        -> "readme"
      [] f = "README.md.bak" -> "readme.md.bak"
      [] f = "Copying"       -> "copying"
      [] f = "LICENSE"       -> "license"
      [] f = "License.MD"    -> "license.md"
      [] f = "LICENSE.TXT"   -> "license.txt"
      [] f = "LICENSE-MIT"   -> "license-mit"
      [] f = ".GitIgnore"    -> ".gitignore"
      [] OTHER               -> f

\* The listings getRepoRootFiles returns in this model.
RootListings == { <<"app.js", ".gitignore">>,
                  <<"README.md", "Copying", ".GitIgnore", "package.json">>,
                  <<"LICENSE", "pom.xml">>,
                  <<>> }

\* The listings getRepoDirectoryFiles returns for .github/workflows.
WorkflowListings == { <<>>, <<"ci.yml">> }

\* rootFiles.map(f => f.toLowerCase())
LowerFiles(files) == [i \in 1..Len(files) |-> ToLowerCase(files[i])]

\* Array.prototype.includes
Includes(arr, x) == \E i \in 1..Len(arr) : arr[i] = x

(* --------------------------- repository name -------------------------- *)

\* What the operator types at the repository prompt, as character tokens.
RepoAnswers == { <<"o", "/", "r">>, <<"o", "/", "r", "2">>, <<"o", "r">> }

OwnerChars == {"o", "r", "2", "-"}
NameChars  == OwnerChars \cup {".", "_"}

\* repoName.match(/^[a-zA-Z0-9-]+\/[a-zA-Z0-9-._]+$/)
ValidRepoFormat(name) ==
    \E k \in 2..(Len(name) - 1) :
        /\ name[k] = "/"
        /\ \A i \in 1..(k - 1) : name[i] \in OwnerChars
        /\ \A i \in (k + 1)..Len(name) : name[i] \in NameChars

(* ------------------------------ detector ------------------------------ *)

Summary_NoKind(kind, repo) == <<"Missing ", "file", " in ">> \o repo

\* `Missing README in ${repoName}` and the three other summaries.
Summary(kind, repo) == <<"Missing ", kind, " in ">> \o repo

\* The finding pushed for an artifact kind.
Finding(kind, repo) ==
    [summary |-> Summary(kind, repo), description |-> <<kind, repo>>]

HasReadme(lower) ==
    Includes(lower, "readme.md") \/ Includes(lower, "readme.txt") \/ Includes(lower, "readme")

HasLicense(lower) ==
    \/ Includes(lower, "license") \/ Includes(lower, "license.md")
    \/ Includes(lower, "license.txt") \/ Includes(lower, "copying")

HasGitignore(lower) == Includes(lower, ".gitignore")

Detect_WorkflowsFirst(lower, workflowFiles, repo) ==
    (IF Len(workflowFiles) > 0 THEN <<>> ELSE <<Finding("GitHub Workflows", repo)>>)
    \o (IF HasReadme(lower) THEN <<>> ELSE <<Finding("README", repo)>>)
    \o (IF HasLicense(lower) THEN <<>> ELSE <<Finding("LICENSE", repo)>>)
    \o (IF HasGitignore(lower) THEN <<>> ELSE <<Finding(".gitignore", repo)>>)

\* The four checks, in source order; each pushes at most one finding.
Detect(lower, workflowFiles, repo) ==
    (IF HasReadme(lower) THEN <<>> ELSE <<Finding("README", repo)>>)
    \o (IF HasLicense(lower) THEN <<>> ELSE <<Finding("LICENSE", repo)>>)
    \o (IF HasGitignore(lower) THEN <<>> ELSE <<Finding(".gitignore", repo)>>)
    \o (IF Len(workflowFiles) > 0 THEN <<>> ELSE <<Finding("GitHub Workflows", repo)>>)

\* buildCmd / testCmd chosen from the root listing.
BuildCmd(lower) ==
    IF Includes(lower, "package.json") THEN "npm install && npm run build"
    ELSE IF Includes(lower, "pom.xml") THEN "mvn clean install"
    ELSE IF Includes(lower, "requirements.txt") THEN "pip install -r requirements.txt"
    ELSE "N/A"

TestCmd(lower) ==
    IF Includes(lower, "package.json") THEN "npm test"
    ELSE IF Includes(lower, "pom.xml") THEN "mvn test"
    ELSE IF Includes(lower, "requirements.txt") THEN "pytest"
    ELSE "N/A"

\* `${repoName}\n\n${finding.description}\n\nPayload: ...`
NewDescription(repo, finding, lower) ==
    [repo |-> repo, text |-> finding.description,
     build |-> BuildCmd(lower), test |-> TestCmd(lower)]

(* ---------------------------- ticket store ----------------------------- *)

\* The description of a ticket somebody else filed.
Old == [repo |-> <<>>, text |-> <<"old">>, build |-> "N/A", test |-> "N/A"]

\* Tickets the store may hold before the first run (distinct project/summary pairs).
InitCandidates ==
    << [project |-> "DOT", summary |-> Summary("README", <<"o", "/", "r">>), description |-> Old],
       [project |-> "DOT", summary |-> Summary("README", <<"o", "/", "r", "2">>), description |-> Old],
       [project |-> "OPS", summary |-> Summary("LICENSE", <<"o", "/", "r">>), description |-> Old] >>

InitStores ==
    { SelectSeq(InitCandidates, LAMBDA t : t \in S) :
        S \in { X \in SUBSET { InitCandidates[i] : i \in 1..Len(InitCandidates) } :
                    Cardinality(X) <= MaxInitTickets } }

\* Keys of the tickets of project p whose summary contains s
\* (jql: project = "p" AND summary ~ "s").
Matching(store, p, s) ==
    { k \in 1..Len(store) : store[k].project = p /\ IsSubstring(s, store[k].summary) }

\* The keys of K in ascending order.
RECURSIVE Ascending(_)
Ascending(K) ==
    IF K = {} THEN <<>>
    ELSE LET m == CHOOSE x \in K : \A y \in K : x <= y
         IN <<m>> \o Ascending(K \ {m})

\* The results a search may return: the matching keys, any one of them first.
SearchResults(store, p, s) ==
    IF Matching(store, p, s) = {} THEN { <<>> }
    ELSE { <<k>> \o Ascending(Matching(store, p, s) \ {k}) : k \in Matching(store, p, s) }

\* Messages of the errors the Jira client throws.
ErrMessages == { <<"valid ", "project is required">>,
                 <<"Request failed with status code ", "400">>,
                 <<"Request failed with status code ", "401">> }

\* What getProjects returns.
ProjectLists == { <<>>, <<"OPS">>, <<"DOT", "OPS">> }

(* --------------------------- the process ------------------------------ *)

\* process.env.JIRA_PROJECT_KEY: unset, or set.
EnvValues == { "", "OPS" }

\* process.env.JIRA_PROJECT_KEY || 'DOT'
InitialProjectKey(env) == IF env = "" THEN "DOT" ELSE env

\* What the operator types at the project prompt.
ProjectAnswers == { "1", "2", "ops" }

\* parseInt(choice); 0 stands for NaN (both fail the num > 0 test).
ParseInt(choice) ==
    CASE choice = "1" -> 1
      [] choice = "2" -> 2
      [] OTHER        -> 0

\* String.prototype.toUpperCase
ToUpperCase(choice) == IF choice = "ops" THEN "OPS" ELSE choice

\* The catch clause's test for a project error.
IsProjectError(message) ==
    \/ IsSubstring(<<"valid ", "project is required">>, message)
    \/ IsSubstring(<<"project is required">>, message)
    \/ IsSubstring(<<"400">>, message)

VARIABLES
    pc,                 \* where inspectRepo stands
    repoName,           \* the repository chosen at the prompt
    accessCheck,        \* what checkRepoAccess reported; "unknown" before the check
    rootFiles,          \* the root listing getRepoRootFiles returned
    lowerFiles,         \* the lower-cased root listing
    workflowFiles,      \* the .github/workflows listing
    findings,           \* the findings array
    idx,                \* the finding the for-of loop is at (1-based)
    JIRA_PROJECT_KEY,   \* the module-level project key
    existingIssues,     \* keys returned by the search of this iteration
    projects,           \* the list getProjects returned, while in scope
    err,                \* message of the error the catch clause holds
    tickets,            \* the Jira store: ticket key |-> record
    outcome,            \* per finding, what the console reported for it
    endedBy,            \* how the run ended
    filesListed,        \* getRepoRootFiles was called in this run
    calls,              \* store and resolver calls of this run, per operation
    lastCall,           \* the latest store or resolver call of this run
    chosen,             \* the key the latest project prompt set, "none" before
    chosenAt,           \* the finding that prompt was made for, 0 before
    failed,             \* a store or resolver call failed in this run
    startKey,           \* JIRA_PROJECT_KEY when the run started
    startTickets,       \* the store when the run started
    prev,               \* what the previous run left
    runNo,              \* number of the process
    failures            \* failures injected so far

vars == << pc, repoName, accessCheck, rootFiles, lowerFiles, workflowFiles, findings,
           idx,
           JIRA_PROJECT_KEY, existingIssues, projects, err, tickets, outcome, endedBy,
           filesListed, calls, lastCall, chosen, chosenAt, failed, startKey, startTickets,
           prev, runNo, failures >>

NoOutcome == [status |-> "none", key |-> 0, message |-> <<>>, project |-> ""]
NoCall    == [op |-> "none", project |-> "", summary |-> <<>>, key |-> 0, idx |-> 0,
              result |-> "none", message |-> <<>>]
NoCalls   == [search |-> 0, create |-> 0, update |-> 0, list |-> 0, choose |-> 0]
NoPrev    == [ran |-> FALSE, findings |-> <<>>, outcome |-> <<>>, startKey |-> ""]

\* A process that has just loaded the module (line 21), before the first run.
Init ==
    /\ pc = "selectRepo"
    /\ repoName = <<>>
    /\ accessCheck = "unknown"
    /\ rootFiles = <<>>
    /\ lowerFiles = <<>>
    /\ workflowFiles = <<>>
    /\ findings = <<>>
    /\ idx = 0
    /\ \E env \in EnvValues :
          /\ JIRA_PROJECT_KEY = InitialProjectKey(env)
          /\ startKey = InitialProjectKey(env)
    /\ existingIssues = <<>>
    /\ projects = <<>>
    /\ err = <<>>
    /\ outcome = <<>>
    /\ endedBy = "running"
    /\ filesListed = FALSE
    /\ calls = NoCalls
    /\ lastCall = NoCall
    /\ chosen = "none"
    /\ chosenAt = 0
    /\ failed = FALSE
    /\ tickets \in InitStores
    /\ startTickets = tickets
    /\ prev = NoPrev
    /\ runNo = 1
    /\ failures = 0

(* ------------------------- steps of inspectRepo ----------------------- *)

\* Bookkeeping of a store or resolver call made for the current finding.
Called(op, project, summary, key, result, message) ==
    /\ calls' = [calls EXCEPT ![op] = @ + 1]
    /\ lastCall' = [op |-> op, project |-> project, summary |-> summary, key |-> key,
                    idx |-> idx, result |-> result, message |-> message]

\* An injected failure of a store or resolver call.
Fails ==
    /\ failures < MaxFailures
    /\ failures' = failures + 1
    /\ failed' = TRUE

Succeeds == UNCHANGED << failures, failed >>

NextFinding_StopAfterFirst ==
    /\ existingIssues' = <<>>
    /\ pc' = "done"
    /\ idx' = idx
    /\ endedBy' = "completed"

NextFinding_SkipOne ==
    /\ existingIssues' = <<>>
    /\ IF idx + 1 < Len(findings)
       THEN /\ pc' = "search"
            /\ idx' = idx + 2
            /\ endedBy' = endedBy
       ELSE /\ pc' = "done"
            /\ idx' = idx
            /\ endedBy' = "completed"

\* success = true, or break: the for-of loop moves to the next finding or ends.
NextFinding ==
    /\ existingIssues' = <<>>
    /\ IF idx < Len(findings)
       THEN /\ pc' = "search"
            /\ idx' = idx + 1
            /\ endedBy' = endedBy
       ELSE /\ pc' = "done"
            /\ idx' = idx
            /\ endedBy' = "completed"

\* throw err out of the loop: the outer catch and finally end the run.
Throw ==
    /\ pc' = "done"
    /\ idx' = idx
    /\ endedBy' = "unexpected_error"
    /\ err' = <<>>
    /\ projects' = <<>>

\* The console line that reports a finding's outcome.
Report(status, key, message) ==
    outcome' = [outcome EXCEPT ![idx] =
                   [status |-> status, key |-> key, message |-> message,
                    project |-> JIRA_PROJECT_KEY]]

Caught_Abort(message) ==
    IF IsProjectError(message)
    THEN /\ err' = message
         /\ pc' = "getProjects"
         /\ existingIssues' = <<>>
         /\ UNCHANGED << idx, endedBy, outcome, projects >>
    ELSE /\ Throw
         /\ Report("abandoned", 0, message)
         /\ existingIssues' = <<>>

Caught_RetryAtOnce(message) ==
    IF IsProjectError(message)
    THEN /\ err' = <<>>
         /\ pc' = "search"
         /\ existingIssues' = <<>>
         /\ UNCHANGED << idx, endedBy, outcome, projects >>
    ELSE /\ err' = <<>>
         /\ Report("abandoned", 0, message)
         /\ NextFinding
         /\ UNCHANGED projects

\* The catch clause for an error thrown by search, update or create.
Caught(message) ==
    IF IsProjectError(message)
    THEN /\ err' = message
         /\ pc' = "getProjects"
         /\ existingIssues' = <<>>
         /\ UNCHANGED << idx, endedBy, outcome, projects >>
    ELSE /\ err' = <<>>
         /\ Report("abandoned", 0, message)
         /\ NextFinding
         /\ UNCHANGED projects

\* Lines 35-64: the repository prompt and the owner/repo format check.
SelectRepo(answer) ==
    /\ pc = "selectRepo"
    /\ repoName' = answer
    /\ IF ValidRepoFormat(answer)
       THEN pc' = "checkAccess" /\ endedBy' = endedBy
       ELSE pc' = "done" /\ endedBy' = "invalid_format"
    /\ UNCHANGED << accessCheck, rootFiles, lowerFiles, workflowFiles, findings, idx, JIRA_PROJECT_KEY,
                    existingIssues, projects, err, tickets, outcome, filesListed, calls,
                    lastCall, chosen, chosenAt, failed, startKey, startTickets, prev, runNo,
                    failures >>

CheckRepoAccess_NoReturn(accessible) ==
    /\ pc = "checkAccess"
    /\ accessCheck' = IF accessible THEN "accessible" ELSE "denied"
    /\ pc' = "inspect"
    /\ UNCHANGED << repoName, rootFiles, lowerFiles, workflowFiles, findings, idx, JIRA_PROJECT_KEY,
                    existingIssues, projects, err, tickets, outcome, endedBy, filesListed,
                    calls, lastCall, chosen, chosenAt, failed, startKey, startTickets, prev,
                    runNo, failures >>

\* Lines 66-77: checkRepoAccess and the early return.
CheckRepoAccess(accessible) ==
    /\ pc = "checkAccess"
    /\ accessCheck' = IF accessible THEN "accessible" ELSE "denied"
    /\ IF accessible
       THEN pc' = "inspect" /\ endedBy' = endedBy
       ELSE pc' = "done" /\ endedBy' = "access_denied"
    /\ UNCHANGED << repoName, rootFiles, lowerFiles, workflowFiles, findings, idx, JIRA_PROJECT_KEY,
                    existingIssues, projects, err, tickets, outcome, filesListed, calls,
                    lastCall, chosen, chosenAt, failed, startKey, startTickets, prev, runNo,
                    failures >>

\* Lines 79-134: list the files, run the four checks, enter the loop.
Inspect(listing, workflows) ==
    /\ pc = "inspect"
    /\ filesListed' = TRUE
    /\ rootFiles' = listing
    /\ lowerFiles' = LowerFiles(listing)
    /\ workflowFiles' = workflows
    /\ findings' = Detect(LowerFiles(listing), workflows, repoName)
    /\ outcome' = [i \in 1..Len(findings') |-> NoOutcome]
    /\ IF Len(findings') = 0
       THEN pc' = "done" /\ idx' = 0 /\ endedBy' = "healthy"
       ELSE pc' = "search" /\ idx' = 1 /\ endedBy' = endedBy
    /\ UNCHANGED << repoName, accessCheck, JIRA_PROJECT_KEY, existingIssues, projects, err,
                    tickets, calls, lastCall, chosen, chosenAt, failed, startKey,
                    startTickets, prev, runNo, failures >>

Jql_InitialKey(summary) == [project |-> startKey, summary |-> summary]

\* Lines 157-158: the query, built from the key in force and the summary
\* (a repository name holds no double quote, so safeSummary is the summary).
Jql(summary) == [project |-> JIRA_PROJECT_KEY, summary |-> summary]

AfterSearch_AlwaysCreate(found) == "create"

AfterSearch_SearchAgain(found) == "search"

\* Line 161: update when the search returned a ticket, create otherwise.
AfterSearch(found) == IF Len(found) > 0 THEN "update" ELSE "create"

\* Lines 157-161: searchIssues for the current finding under the current key.
SearchIssues ==
    /\ pc = "search"
    /\ LET jql == Jql(findings[idx].summary) IN
       \/ \E found \in SearchResults(tickets, jql.project, jql.summary) :
            /\ existingIssues' = found
            /\ pc' = AfterSearch(found)
            /\ Called("search", jql.project, jql.summary, 0, "ok", <<>>)
            /\ Succeeds
            /\ UNCHANGED << idx, endedBy, outcome, err, projects >>
       \/ \E message \in ErrMessages :
            /\ Fails
            /\ Called("search", jql.project, jql.summary, 0, "error", message)
            /\ Caught(message)
    /\ UNCHANGED << repoName, accessCheck, rootFiles, lowerFiles, workflowFiles, findings,
                    JIRA_PROJECT_KEY, tickets, filesListed, chosen, chosenAt, startKey,
                    startTickets, prev, runNo >>

\* Lines 162-168: updateIssue on the first ticket the search returned.
UpdateIssue ==
    /\ pc = "update"
    /\ \/ /\ tickets' = [tickets EXCEPT
                ![existingIssues[1]].summary = findings[idx].summary,
                ![existingIssues[1]].description =
                    NewDescription(repoName, findings[idx], lowerFiles)]
          /\ Called("update", JIRA_PROJECT_KEY, findings[idx].summary, existingIssues[1],
                    "ok", <<>>)
          /\ Report("updated", existingIssues[1], <<>>)
          /\ NextFinding
          /\ Succeeds
          /\ UNCHANGED << err, projects >>
       \/ \E message \in ErrMessages :
            /\ Fails
            /\ Called("update", JIRA_PROJECT_KEY, findings[idx].summary, existingIssues[1],
                      "error", message)
            /\ Caught(message)
            /\ UNCHANGED tickets
    /\ UNCHANGED << repoName, accessCheck, rootFiles, lowerFiles, workflowFiles, findings,
                    JIRA_PROJECT_KEY, filesListed, chosen, chosenAt, startKey, startTickets,
                    prev, runNo >>

\* Lines 170-178: createIssue under the current key; the store mints the key.
CreateIssue ==
    /\ pc = "create"
    /\ \/ /\ tickets' = Append(tickets,
                [project |-> JIRA_PROJECT_KEY, summary |-> findings[idx].summary,
                 description |-> NewDescription(repoName, findings[idx], lowerFiles)])
          /\ Called("create", JIRA_PROJECT_KEY, findings[idx].summary, Len(tickets) + 1,
                    "ok", <<>>)
          /\ Report("created", Len(tickets) + 1, <<>>)
          /\ NextFinding
          /\ Succeeds
          /\ UNCHANGED << err, projects >>
       \/ \E message \in ErrMessages :
            /\ Fails
            /\ Called("create", JIRA_PROJECT_KEY, findings[idx].summary, 0, "error", message)
            /\ Caught(message)
            /\ UNCHANGED tickets
    /\ UNCHANGED << repoName, accessCheck, rootFiles, lowerFiles, workflowFiles, findings,
                    JIRA_PROJECT_KEY, filesListed, chosen, chosenAt, startKey, startTickets,
                    prev, runNo >>

ProjectsFetched_SkipFinding(list) ==
    IF Len(list) = 0
    THEN /\ err' = <<>>
         /\ projects' = <<>>
         /\ Report("abandoned", 0, err)
         /\ NextFinding
    ELSE /\ pc' = "askQuestion"
         /\ projects' = list
         /\ UNCHANGED << idx, endedBy, err, outcome, existingIssues >>

ProjectsFetched_PromptOnEmpty(list) ==
    /\ pc' = "askQuestion"
    /\ projects' = list
    /\ UNCHANGED << idx, endedBy, err, outcome, existingIssues >>

\* Lines 189-197: an empty project list rethrows err, another one is offered.
ProjectsFetched(list) ==
    IF Len(list) = 0
    THEN /\ Throw
         /\ UNCHANGED << outcome, existingIssues >>
    ELSE /\ pc' = "askQuestion"
         /\ projects' = list
         /\ UNCHANGED << idx, endedBy, err, outcome, existingIssues >>

\* Lines 187-197 and 213-216: getProjects; an error of it rethrows err too.
GetProjects ==
    /\ pc = "getProjects"
    /\ \/ \E list \in ProjectLists :
            /\ Called("list", JIRA_PROJECT_KEY, <<>>, 0,
                      IF Len(list) = 0 THEN "empty" ELSE "ok", <<>>)
            /\ ProjectsFetched(list)
            /\ Succeeds
       \/ /\ Fails
          /\ Called("list", JIRA_PROJECT_KEY, <<>>, 0, "error", <<>>)
          /\ Throw
          /\ UNCHANGED << outcome, existingIssues >>
    /\ UNCHANGED << repoName, accessCheck, rootFiles, lowerFiles, workflowFiles, findings,
                    JIRA_PROJECT_KEY, tickets, filesListed, chosen, chosenAt, startKey,
                    startTickets, prev, runNo >>

\* The key lines 203-209 derive from the answer.
ChosenKey(choice) ==
    IF ParseInt(choice) > 0 /\ ParseInt(choice) <= Len(projects)
    THEN projects[ParseInt(choice)]
    ELSE ToUpperCase(choice)

Retry_FromFirst ==
    /\ pc' = "search"
    /\ idx' = 1

Retry_Advance ==
    /\ pc' = "search"
    /\ idx' = IF idx < Len(findings) THEN idx + 1 ELSE idx

Retry_SkipSearch ==
    /\ pc' = "create"
    /\ idx' = idx

\* Line 211: success is still false, the while loop runs again for this finding.
Retry ==
    /\ pc' = "search"
    /\ idx' = idx

\* Lines 199-211: the project prompt replaces the key; the while loop retries.
AskQuestion(answer) ==
    /\ pc = "askQuestion"
    /\ JIRA_PROJECT_KEY' = ChosenKey(answer)
    /\ chosen' = ChosenKey(answer)
    /\ chosenAt' = idx
    /\ Called("choose", JIRA_PROJECT_KEY, <<>>, 0, "ok", <<>>)
    /\ Retry
    /\ err' = <<>>
    /\ projects' = <<>>
    /\ UNCHANGED << repoName, accessCheck, rootFiles, lowerFiles, workflowFiles, findings,
                    existingIssues, tickets, outcome, endedBy, filesListed, failed, startKey,
                    startTickets, prev, runNo, failures >>

\* The script is started again: a new process, the same store.
Restart(env) ==
    /\ pc = "done"
    /\ runNo < MaxRuns
    /\ runNo' = runNo + 1
    /\ prev' = [ran |-> TRUE, findings |-> findings,
                outcome |-> [i \in 1..Len(outcome) |->
                               [status |-> outcome[i].status, project |-> outcome[i].project]],
                startKey |-> startKey]
    /\ pc' = "selectRepo"
    /\ repoName' = <<>>
    /\ accessCheck' = "unknown"
    /\ rootFiles' = <<>>
    /\ lowerFiles' = <<>>
    /\ workflowFiles' = <<>>
    /\ findings' = <<>>
    /\ idx' = 0
    /\ JIRA_PROJECT_KEY' = InitialProjectKey(env)
    /\ existingIssues' = <<>>
    /\ projects' = <<>>
    /\ err' = <<>>
    /\ outcome' = <<>>
    /\ endedBy' = "running"
    /\ filesListed' = FALSE
    /\ calls' = NoCalls
    /\ lastCall' = NoCall
    /\ chosen' = "none"
    /\ chosenAt' = 0
    /\ failed' = FALSE
    /\ startKey' = InitialProjectKey(env)
    /\ startTickets' = tickets
    /\ UNCHANGED << tickets, failures >>

\* One process: every input the model holds.
Next ==
    \/ \E answer \in RepoAnswers : SelectRepo(answer)
    \/ \E accessible \in BOOLEAN : CheckRepoAccess(accessible)
    \/ \E listing \in RootListings, workflows \in WorkflowListings :
          Inspect(listing, workflows)
    \/ SearchIssues
    \/ UpdateIssue
    \/ CreateIssue
    \/ GetProjects
    \/ \E answer \in ProjectAnswers : AskQuestion(answer)

Spec == Init /\ [][Next]_vars

\* One process whose event loop keeps running: every awaited call returns and
\* the operator answers the prompts, so a step that can be taken is taken.
FairRootListings == { <<"app.js", ".gitignore">>, <<"LICENSE", "pom.xml">> }

NextFair ==
    \/ \E answer \in RepoAnswers : SelectRepo(answer)
    \/ \E accessible \in BOOLEAN : CheckRepoAccess(accessible)
    \/ \E listing \in FairRootListings, workflows \in WorkflowListings :
          Inspect(listing, workflows)
    \/ SearchIssues
    \/ UpdateIssue
    \/ CreateIssue
    \/ GetProjects
    \/ \E answer \in ProjectAnswers : AskQuestion(answer)

SpecFair == Init /\ [][NextFair]_vars /\ WF_vars(NextFair)

\* The repositories and listings of the repeated runs.
RepeatRepoAnswers == { <<"o", "/", "r">> }
RepeatRootListings == { <<"README.md", "LICENSE", ".gitignore">>, <<"app.js", ".gitignore">> }
RepeatWorkflowListings == { <<"ci.yml">> }

\* Up to MaxRuns processes, one after the other, against the same store.
NextRepeat ==
    \/ \E answer \in RepeatRepoAnswers : SelectRepo(answer)
    \/ \E accessible \in BOOLEAN : CheckRepoAccess(accessible)
    \/ \E listing \in RepeatRootListings, workflows \in RepeatWorkflowListings :
          Inspect(listing, workflows)
    \/ SearchIssues
    \/ UpdateIssue
    \/ CreateIssue
    \/ GetProjects
    \/ \E answer \in ProjectAnswers : AskQuestion(answer)
    \/ \E env \in EnvValues : Restart(env)

SpecRepeat == Init /\ [][NextRepeat]_vars

\* Names a root listing may hold: the names the checks look for in several
\* letter cases, names that only contain one of them, and another file.
FileNames == { "README.md", "ReadMe.txt", "README", "readme", "README.md.bak",
               "LICENSE", "License.MD", "LICENSE.TXT", "Copying", "LICENSE-MIT",
               ".GitIgnore", ".gitignore", "my.gitignore", "app.js" }

\* Every listing of at most MaxFiles of these names.
DetectListings == UNION { [1..n -> FileNames] : n \in 0..MaxFiles }

\* The script up to the end of the four checks, for every such listing.
NextDetect ==
    \/ \E answer \in RepoAnswers : SelectRepo(answer)
    \/ \E accessible \in BOOLEAN : CheckRepoAccess(accessible)
    \/ /\ pc = "inspect"
       /\ \E listing \in DetectListings, workflows \in WorkflowListings :
             Inspect(listing, workflows)

SpecDetect == Init /\ [][NextDetect]_vars

(* ------------------------------ claims -------------------------------- *)

Terminal == {"created", "updated", "abandoned"}

\* A run has ended with every one of its findings created or updated.
AllSettled(o) == \A i \in 1..Len(o) : o[i].status \in {"created", "updated"}

\* A second run has ended, made with the findings of a first run that ended with
\* every finding created or updated, and no call of the second run failed.
SecondRunEnded ==
    /\ pc = "done"
    /\ filesListed
    /\ prev.ran
    /\ Len(prev.findings) > 0
    /\ AllSettled(prev.outcome)
    /\ findings = prev.findings
    /\ ~failed

\* Every outcome of the run is updated, create was never called, and the store
\* holds as many tickets as when the run started.
OnlyUpdated ==
    /\ \A i \in 1..Len(outcome) : outcome[i].status = "updated"
    /\ calls.create = 0
    /\ Len(tickets) = Len(startTickets)

\* C1 as stated: a second run with the same findings, started with the same
\* collection as the first and without failures, only updates.
C1_IdempotentSameInitialCollection ==
    (SecondRunEnded /\ startKey = prev.startKey) => OnlyUpdated

\* C1, amended: a second run with the same findings and without failures only
\* updates, creates nothing and leaves the number of tickets unchanged, when it
\* starts with the collection in which every finding of the first run was
\* created or updated.
C1_Idempotent ==
    (SecondRunEnded /\ \A i \in 1..Len(prev.outcome) : prev.outcome[i].project = startKey)
        => OnlyUpdated

C1_Witness ==
    /\ SecondRunEnded
    /\ \A i \in 1..Len(prev.outcome) : prev.outcome[i].project = startKey
    /\ \E i \in 1..Len(prev.outcome) : prev.outcome[i].status = "created"
    /\ prev.startKey # startKey
    /\ Len(findings) > 1

\* C2: the store never holds two tickets with the same summary in the same
\* collection.
C2_NoDuplicateTickets ==
    \A k1, k2 \in 1..Len(tickets) :
        (tickets[k1].project = tickets[k2].project /\ tickets[k1].summary = tickets[k2].summary)
            => k1 = k2

\* A store call has just failed with an error that is no project error.
ApiErrorStep ==
    /\ calls' # calls
    /\ lastCall'.op \in {"search", "create", "update"}
    /\ lastCall'.result = "error"
    /\ ~IsProjectError(lastCall'.message)

C4_RecoveryPropagation ==
    chosen # "none" =>
        /\ JIRA_PROJECT_KEY = chosen
        /\ lastCall.op \in {"search", "create"} => lastCall.project = chosen

C4_Witness ==
    /\ chosen # "none"
    /\ chosen # startKey
    /\ lastCall.op = "create"
    /\ lastCall.result = "ok"
    /\ lastCall.idx > chosenAt

\* The latest call is a getProjects that returned no project.
Exhausted == lastCall.op = "list" /\ lastCall.result = "empty"

\* C5: when getProjects returns an empty list the run is over at once: no
\* call follows it, the findings from the current one on stay unprocessed
\* and the key keeps the value it had.
C5_ResolverExhaustionStops ==
    Exhausted =>
        /\ pc = "done"
        /\ JIRA_PROJECT_KEY = lastCall.project
        /\ \A j \in lastCall.idx..Len(findings) : outcome[j].status = "none"

C5_Witness ==
    /\ Exhausted
    /\ lastCall.idx = 2
    /\ Len(findings) = 3
    /\ chosen # "none"

\* C6: when a run ends, every finding has an outcome: created, updated or
\* abandoned.
C6_EveryFindingReported ==
    (pc = "done" /\ filesListed) => \A i \in 1..Len(findings) : outcome[i].status \in Terminal

\* C7: a run that ends with findings it never attempted ended on an empty
\* project list (a denied repository has no findings).
C7_HaltingPolicy ==
    (pc = "done" /\ idx < Len(findings)) => Exhausted

\* C8: a finding that has an outcome keeps it, and no later call is made for
\* it, also when a later finding replaces the key.
C8_AtMostOnceOutcome ==
    [][\A i \in 1..Len(findings) :
          outcome[i].status # "none" =>
              /\ outcome'[i] = outcome[i]
              /\ calls' # calls => lastCall'.idx # i]_vars

C8_Witness ==
    /\ chosenAt = 2
    /\ outcome[1].status = "created"
    /\ lastCall.op = "search"
    /\ lastCall.idx = 2
    /\ lastCall.project = chosen
    /\ chosen # startKey

\* C9: when the access check reports the repository as not accessible the run
\* is over: no file was listed, there is no finding, no call was made and the
\* store is as it was.
C9_AccessDeniedIsFatal ==
    accessCheck = "denied" =>
        /\ pc = "done"
        /\ endedBy = "access_denied"
        /\ ~filesListed
        /\ findings = <<>>
        /\ calls = NoCalls
        /\ tickets = startTickets

C9_Witness == accessCheck = "denied" /\ pc = "done"

\* No ticket of the store the run started with matches a finding's summary.
CleanStart ==
    \A i \in 1..Len(findings), k \in 1..Len(startTickets) :
        ~IsSubstring(findings[i].summary, startTickets[k].summary)

\* C10: a run without failures against a store with no matching ticket ends
\* with one created outcome per finding, in finding order, each with a key new
\* to the store and its own, filed under the initial key, and calls neither
\* update nor the resolver; the listing [app.js, .gitignore] without workflows
\* gives the findings README, LICENSE, workflows in that order.
C10_CleanStoreRun ==
    (pc = "done" /\ filesListed /\ ~failed /\ CleanStart) =>
        /\ \A i \in 1..Len(findings) :
              /\ outcome[i].status = "created"
              /\ outcome[i].key = Len(startTickets) + i
              /\ tickets[outcome[i].key].summary = findings[i].summary
              /\ tickets[outcome[i].key].project = startKey
        /\ Len(tickets) = Len(startTickets) + Len(findings)
        /\ calls.update = 0 /\ calls.list = 0 /\ calls.choose = 0
        /\ (lowerFiles = <<"app.js", ".gitignore">> /\ workflowFiles = <<>>) =>
              [i \in 1..Len(findings) |-> findings[i].summary] =
                  << Summary("README", repoName), Summary("LICENSE", repoName),
                     Summary("GitHub Workflows", repoName) >>

C10_Witness ==
    /\ pc = "done" /\ filesListed /\ ~failed /\ CleanStart
    /\ lowerFiles = <<"app.js", ".gitignore">> /\ workflowFiles = <<>>
    /\ Len(startTickets) = 2
    /\ outcome[3].status = "created"

(* ---------------------------- the detector ---------------------------- *)

\* The names of the root listing, as returned and lower-cased.
Raw == { rootFiles[i] : i \in 1..Len(rootFiles) }
Lowered == { lowerFiles[i] : i \in 1..Len(lowerFiles) }

\* The findings hold one for this artifact kind.
Emitted(kind) == \E i \in 1..Len(findings) : findings[i].summary = Summary(kind, repoName)

\* C11: after the listing is lower-cased, the README finding is emitted iff
\* none of readme.md, readme.txt, readme is listed, the LICENSE finding iff none
\* of license, license.md, license.txt, copying is, the .gitignore finding iff
\* .gitignore is not, the workflows finding iff the workflow listing is empty;
\* a listed name in another letter case satisfies its check, and names that
\* only contain one of these strings satisfy none.
C11_DetectorMembership ==
    filesListed =>
        /\ Emitted("README") <=> Lowered \cap {"readme.md", "readme.txt", "readme"} = {}
        /\ Emitted("LICENSE") <=>
               Lowered \cap {"license", "license.md", "license.txt", "copying"} = {}
        /\ Emitted(".gitignore") <=> ".gitignore" \notin Lowered
        /\ Emitted("GitHub Workflows") <=> workflowFiles = <<>>
        /\ Raw \cap {"README.md", "ReadMe.txt", "README", "readme"} # {} => ~Emitted("README")
        /\ Raw \cap {"LICENSE", "License.MD", "LICENSE.TXT", "Copying"} # {}
               => ~Emitted("LICENSE")
        /\ Raw \cap {".GitIgnore", ".gitignore"} # {} => ~Emitted(".gitignore")
        /\ Raw \subseteq {"README.md.bak", "LICENSE-MIT", "my.gitignore", "app.js"}
               => Emitted("README") /\ Emitted("LICENSE") /\ Emitted(".gitignore")

C11_Witness ==
    /\ filesListed
    /\ rootFiles = <<"ReadMe.txt", "LICENSE-MIT">>
    /\ workflowFiles # <<>>
    /\ [i \in 1..Len(findings) |-> findings[i].summary] =
           << Summary("LICENSE", repoName), Summary(".gitignore", repoName) >>

\* The artifact kinds, in checklist order.
Checklist == << "README", "LICENSE", ".gitignore", "GitHub Workflows" >>

\* The position in the checklist of the kind a finding's summary names, 0 for
\* a summary that names none.
Rank(finding) ==
    IF \E r \in 1..Len(Checklist) : finding.summary = Summary(Checklist[r], repoName)
    THEN CHOOSE r \in 1..Len(Checklist) : finding.summary = Summary(Checklist[r], repoName)
    ELSE 0

\* C12: every finding is for one kind of the checklist, and the findings are
\* in strictly ascending checklist order (so there is at most one per kind and
\* the sequence is the checklist restricted to the emitted kinds).
C12_DetectorShape ==
    filesListed =>
        /\ \A i \in 1..Len(findings) : Rank(findings[i]) > 0
        /\ \A i, j \in 1..Len(findings) : i < j => Rank(findings[i]) < Rank(findings[j])
        /\ Len(findings) = Cardinality({ r \in 1..Len(Checklist) : Emitted(Checklist[r]) })

C12_Witness ==
    /\ filesListed
    /\ rootFiles = <<"Copying", "app.js">>
    /\ workflowFiles = <<>>
    /\ Len(findings) = 3
    /\ Rank(findings[1]) = 1 /\ Rank(findings[2]) = 3 /\ Rank(findings[3]) = 4

(* --------------------------- the retry loop ---------------------------- *)

\* This step issues a search.
SearchStep == calls'.search # calls.search

\* C13: a search for the finding the previous call was made for too (another
\* attempt on the same finding) directly follows an answer at the project
\* prompt, given for that finding: no attempt is repeated without one.
C13_RetryNeedsCollectionChange ==
    [][(SearchStep /\ lastCall.idx = idx) =>
          /\ lastCall.op = "choose"
          /\ chosenAt = idx
          /\ JIRA_PROJECT_KEY = chosen]_vars

C13_Witness ==
    /\ lastCall.op = "search"
    /\ calls.search = 3
    /\ calls.choose = 2
    /\ lastCall.idx = 1

\* The latest call is a create or update that failed for want of a valid project.
InvalidCollectionFailure ==
    /\ lastCall.op \in {"create", "update"}
    /\ lastCall.result = "error"
    /\ IsSubstring(<<"project is required">>, lastCall.message)

\* C14: the resolver branch is entered only from a create or update that
\* failed with the collection-required error; no other failure, and no failure
\* of search, leads to getProjects.
C14_RecoveryOnlyOnInvalidCollection ==
    pc = "getProjects" => InvalidCollectionFailure

(* -------------------------- search before write ------------------------ *)

CreateStep == calls'.create # calls.create
UpdateStep == calls'.update # calls.update

\* The latest call is a search that returned, made for the current finding
\* with its summary and the key in force.
SearchedJustBefore ==
    /\ lastCall.op = "search"
    /\ lastCall.result = "ok"
    /\ lastCall.idx = idx
    /\ lastCall.project = JIRA_PROJECT_KEY
    /\ lastCall.summary = findings[idx].summary

\* C15: the first call for a finding, and the first call after an answer at
\* the project prompt, is a search; a create directly follows a search for the
\* same finding under the same key that returned nothing; an update directly
\* follows such a search that returned tickets, is made on the first of them,
\* and writes the finding's summary and description.
C15_SearchBeforeWrite ==
    [][/\ (calls' # calls /\ (lastCall.idx # idx \/ lastCall.op = "choose")) => SearchStep
       /\ CreateStep =>
             /\ SearchedJustBefore
             /\ existingIssues = <<>>
             /\ Matching(tickets, JIRA_PROJECT_KEY, findings[idx].summary) = {}
             /\ lastCall'.project = lastCall.project
             /\ lastCall'.summary = lastCall.summary
       /\ UpdateStep =>
             /\ SearchedJustBefore
             /\ existingIssues # <<>>
             /\ existingIssues[1] \in Matching(tickets, JIRA_PROJECT_KEY, findings[idx].summary)
             /\ lastCall'.key = existingIssues[1]
             /\ lastCall'.result = "ok" =>
                   /\ tickets'[existingIssues[1]].summary = findings[idx].summary
                   /\ tickets'[existingIssues[1]].description.text = findings[idx].description
                   /\ tickets'[existingIssues[1]].description.repo = repoName]_vars

C15_Witness ==
    /\ lastCall.op = "update"
    /\ lastCall.result = "ok"
    /\ lastCall.idx = 2
    /\ calls.create = 1
    /\ calls.search = 2

\* C16: after an answer at the project prompt, given while finding i was
\* recovered, the key in force is that answer and the loop stands at the
\* search of finding i; the next call is a search for finding i's summary
\* under that key.
C16_RetrySameFindingNewCollection ==
    /\ [](lastCall.op = "choose" =>
             /\ JIRA_PROJECT_KEY = chosen
             /\ pc = "search"
             /\ idx = chosenAt
             /\ lastCall.idx = chosenAt)
    /\ [][(calls' # calls /\ lastCall.op = "choose") =>
             /\ lastCall'.op = "search"
             /\ lastCall'.project = chosen
             /\ lastCall'.idx = chosenAt
             /\ lastCall'.summary = findings[chosenAt].summary]_vars

C16_Witness ==
    /\ lastCall.op = "search"
    /\ lastCall.result = "ok"
    /\ calls.search = 2
    /\ calls.choose = 1
    /\ chosenAt = 1
    /\ lastCall.idx = 1
    /\ lastCall.project = chosen
    /\ chosen # startKey
    /\ Len(findings) > 1

(* ------------------------------ sequencing ----------------------------- *)

\* Number of store and resolver calls of the run.
CallsMade(c) == c.search + c.create + c.update + c.list + c.choose

\* C17: a step makes at most one call; a call is made for the finding the loop
\* stands at, which is the finding of the call before it or the one after
\* that: the calls of finding i all come before those of finding i + 1, and no
\* finding is passed over.
C17_StrictSequencing ==
    [][calls' # calls =>
          /\ CallsMade(calls') = CallsMade(calls) + 1
          /\ lastCall'.idx = idx
          /\ idx \in 1..Len(findings)
          /\ lastCall'.idx \in {lastCall.idx, lastCall.idx + 1}
          /\ idx' \in {idx, idx + 1}]_vars

C17_Witness ==
    /\ Len(findings) = 4
    /\ lastCall.op = "create"
    /\ lastCall.idx = 4
    /\ calls.choose = 1
    /\ outcome[2].status = "abandoned"

(* ------------------------- frame of the project key -------------------- *)

\* C18: JIRA_PROJECT_KEY changes only in the step that answers the project
\* prompt, which follows a getProjects that returned candidates; every step
\* that makes another call (a search, a create, an update, a getProjects,
\* whether it succeeds, abandons the finding or ends the run) leaves it as it
\* was.
C18_FrameOfCurrentCollection ==
    [][/\ JIRA_PROJECT_KEY' # JIRA_PROJECT_KEY =>
             /\ pc = "askQuestion"
             /\ lastCall.op = "list"
             /\ lastCall.result = "ok"
             /\ lastCall'.op = "choose"
       /\ (calls' # calls /\ lastCall'.op # "choose") =>
             JIRA_PROJECT_KEY' = JIRA_PROJECT_KEY]_vars

C18_Witness ==
    /\ lastCall.op = "choose"
    /\ JIRA_PROJECT_KEY # startKey
    /\ calls.create = 1
    /\ calls.update = 1
    /\ failures = 2

(* ------------------------- one ticket per finding ---------------------- *)

\* C19: when a run ends with every finding created or updated, the key
\* reported for each finding is a ticket of the store that holds the finding's
\* summary and description, and the keys of distinct findings differ.
C19_OneTicketPerFinding ==
    (pc = "done" /\ filesListed /\ AllSettled(outcome)) =>
        /\ \A i \in 1..Len(findings) :
              /\ outcome[i].key \in 1..Len(tickets)
              /\ tickets[outcome[i].key].summary = findings[i].summary
              /\ tickets[outcome[i].key].description.text = findings[i].description
              /\ tickets[outcome[i].key].description.repo = repoName
              /\ tickets[outcome[i].key].project = outcome[i].project
        /\ \A i, j \in 1..Len(findings) : i # j => outcome[i].key # outcome[j].key

C19_Witness ==
    /\ pc = "done" /\ filesListed /\ AllSettled(outcome)
    /\ Len(findings) = 3
    /\ outcome[1].status = "updated"
    /\ outcome[2].status = "updated"
    /\ outcome[3].status = "created"
    /\ calls.choose = 1

(* ------------------------------ termination ---------------------------- *)

====
